---------------------------- MODULE Spec2Model ----------------------------
(***************************************************************************)
(* Traffic quality checker: metrics, 8-day weighted buyout score, adjusted *)
(* buyout and issue detection over a lead table (src/app/metrics.py,       *)
(* src/app/scoring.py, src/app/crud.py).                                   *)
(*                                                                         *)
(* Numbers.  Percentages are carried in hundredths of a percent (12.34 %   *)
(* is 1234), which is exactly the precision round(x, 2) keeps.  Rates are   *)
(* exact fractions [n, d].  Dates are day numbers; today is day 0, so a    *)
(* lead created k days ago has date -k.                                    *)
(***************************************************************************)
EXTENDS Integers, Sequences, FiniteSets, TLC

VARIABLES
    df,     \* the lead DataFrame handed to the core: a sequence of rows
    inp,    \* the scalar arguments of the call under check
    out,    \* the last call and what it returned
    reports, \* the webmaster_reports table: the saved rows, oldest first
    now     \* the database server's clock, in ticks

vars == <<df, inp, out, reports, now>>

NoCall == [op |-> "none"]

-----------------------------------------------------------------------------
(* Arithmetic helpers                                                      *)

Max(a, b) == IF a >= b THEN a ELSE b
Min(a, b) == IF a <= b THEN a ELSE b
Abs(a) == IF a < 0 THEN 0 - a ELSE a

\* Python's round(): the quotient n / d rounded to the nearest integer, ties
\* to the even neighbour.  d # 0.
RoundDiv(n, d) ==
    LET nn == IF d < 0 THEN 0 - n ELSE n
        dd == Abs(d)
        q  == nn \div dd
        r  == nn - q * dd
    IN  IF 2 * r < dd THEN q
        ELSE IF 2 * r > dd THEN q + 1
        ELSE IF q % 2 = 0 THEN q ELSE q + 1

-----------------------------------------------------------------------------
(* metrics._pct                                                            *)

\* _pct with the guard dropped: a zero denominator raises.
Pct_Unguarded(numerator, denominator) ==
    IF denominator = 0
    THEN [kind |-> "ZeroDivisionError"]
    ELSE [kind |-> "value", val |-> RoundDiv(numerator * 10000, denominator)]

\* round(numerator / denominator * 100, 2) if denominator else 0.0,
\* in hundredths of a percent.
Pct(numerator, denominator) ==
    IF denominator # 0
    THEN [kind |-> "value", val |-> RoundDiv(numerator * 10000, denominator)]
    ELSE [kind |-> "value", val |-> 0]

\* The float the callers store: _pct never raises, so this is its value.
PctVal(numerator, denominator) == Pct(numerator, denominator).val

-----------------------------------------------------------------------------
(* crud.detect_issues                                                      *)

TrashThreshold   == 20    \* trash_pct > 20
ApproveThreshold == 30    \* approve_pct < 30
BuyoutThreshold  == 65    \* buyout_pct < 65
ScoreThreshold   == 70    \* score_pct < 70

\* An optional float: None is the empty sequence, a value x is <<x>>.
None == <<>>
Some(x) == <<x>>

\* The {x:.1f} of the messages: hundredths shown with one decimal (tenths).
Fmt1(x) == RoundDiv(x, 10)

Issue(kind, pct) == [kind |-> kind, shown |-> Fmt1(pct)]

\* detect_issues with non-strict comparisons.
DetectIssues_NonStrict(approve_pct, buyout_pct, trash_pct, score_pct) ==
    (IF trash_pct >= TrashThreshold * 100
        THEN <<Issue("trash", trash_pct)>> ELSE <<>>)
    \o (IF approve_pct <= ApproveThreshold * 100
        THEN <<Issue("approve", approve_pct)>> ELSE <<>>)
    \o (IF buyout_pct <= BuyoutThreshold * 100
        THEN <<Issue("buyout", buyout_pct)>> ELSE <<>>)
    \o (IF score_pct # None /\ score_pct[1] <= ScoreThreshold * 100
        THEN <<Issue("score", score_pct[1])>> ELSE <<>>)

\* detect_issues with the approve check moved in front of the trash check.
DetectIssues_Reordered(approve_pct, buyout_pct, trash_pct, score_pct) ==
    (IF approve_pct < ApproveThreshold * 100
        THEN <<Issue("approve", approve_pct)>> ELSE <<>>)
    \o (IF trash_pct > TrashThreshold * 100
        THEN <<Issue("trash", trash_pct)>> ELSE <<>>)
    \o (IF buyout_pct < BuyoutThreshold * 100
        THEN <<Issue("buyout", buyout_pct)>> ELSE <<>>)
    \o (IF score_pct # None /\ score_pct[1] < ScoreThreshold * 100
        THEN <<Issue("score", score_pct[1])>> ELSE <<>>)

\* The four checks append to the list in source order.
DetectIssues(approve_pct, buyout_pct, trash_pct, score_pct) ==
    (IF trash_pct > TrashThreshold * 100
        THEN <<Issue("trash", trash_pct)>> ELSE <<>>)
    \o (IF approve_pct < ApproveThreshold * 100
        THEN <<Issue("approve", approve_pct)>> ELSE <<>>)
    \o (IF buyout_pct < BuyoutThreshold * 100
        THEN <<Issue("buyout", buyout_pct)>> ELSE <<>>)
    \o (IF score_pct # None /\ score_pct[1] < ScoreThreshold * 100
        THEN <<Issue("score", score_pct[1])>> ELSE <<>>)

-----------------------------------------------------------------------------
(* scoring._benchmark_for_age                                              *)

\* config: the scoring window W and the benchmark curve, in percent, for
\* cohort ages 1..W (day 1 is 0.10; day W is the curve's highest target).
SCORING_WINDOW_DAYS == 8
BUYOUT_BENCHMARK == <<10, 20, 25, 30, 40, 50, 60, 65>>

\* _benchmark_for_age without the lower clamp: ages below 1 fall off the table
\* (KeyError).
BenchmarkForAge_NoLowerClamp(age_days) ==
    LET clamped == Min(age_days, SCORING_WINDOW_DAYS)
    IN  IF clamped \in DOMAIN BUYOUT_BENCHMARK
        THEN [kind |-> "value", val |-> BUYOUT_BENCHMARK[clamped]]
        ELSE [kind |-> "KeyError"]

\* _benchmark_for_age clamping to W - 1 instead of W.
BenchmarkForAge_ShortWindow(age_days) ==
    LET clamped == Max(1, Min(age_days, SCORING_WINDOW_DAYS - 1))
    IN  [kind |-> "value", val |-> BUYOUT_BENCHMARK[clamped]]

\* clamped = max(1, min(age_days, SCORING_WINDOW_DAYS)); BUYOUT_BENCHMARK[clamped]
BenchmarkForAge(age_days) ==
    LET clamped == Max(1, Min(age_days, SCORING_WINDOW_DAYS))
    IN  IF clamped \in DOMAIN BUYOUT_BENCHMARK
        THEN [kind |-> "value", val |-> BUYOUT_BENCHMARK[clamped]]
        ELSE [kind |-> "KeyError"]

-----------------------------------------------------------------------------
(* Pure-function specifications: Init draws the arguments, the action      *)
(* applies the function.                                                   *)

MaxCount == 6       \* _pct arguments range over -MaxCount..MaxCount
Delta == 1          \* detect_issues arguments lie within Delta hundredths of a threshold
AgeSpan == 24       \* _benchmark_for_age arguments range over -AgeSpan..W+AgeSpan

InitPct ==
    /\ df = <<>>
    /\ inp \in [numerator : (0 - MaxCount)..MaxCount,
                denominator : (0 - MaxCount)..MaxCount]
    /\ out = NoCall
    /\ reports = <<>>
    /\ now = 0

CallPct ==
    /\ out.op = "none"
    /\ out' = [op |-> "_pct", ret |-> Pct(inp.numerator, inp.denominator)]
    /\ UNCHANGED <<df, inp, reports, now>>

SpecPct == InitPct /\ [][CallPct]_vars

Around(t) == (t * 100 - Delta)..(t * 100 + Delta)

InitIssues ==
    /\ df = <<>>
    /\ inp \in [approve_pct : Around(ApproveThreshold),
                buyout_pct : Around(BuyoutThreshold),
                trash_pct : Around(TrashThreshold),
                score_pct : {Some(x) : x \in Around(ScoreThreshold)} \cup {None}]
    /\ out = NoCall
    /\ reports = <<>>
    /\ now = 0

CallDetectIssues ==
    /\ out.op = "none"
    /\ out' = [op |-> "detect_issues",
               ret |-> DetectIssues(inp.approve_pct, inp.buyout_pct,
                                    inp.trash_pct, inp.score_pct)]
    /\ UNCHANGED <<df, inp, reports, now>>

SpecIssues == InitIssues /\ [][CallDetectIssues]_vars

InitBenchmark ==
    /\ df = <<>>
    /\ inp \in [age_days : (0 - AgeSpan)..(SCORING_WINDOW_DAYS + AgeSpan)]
    /\ out = NoCall
    /\ reports = <<>>
    /\ now = 0

CallBenchmarkForAge ==
    /\ out.op = "none"
    /\ out' = [op |-> "_benchmark_for_age", ret |-> BenchmarkForAge(inp.age_days)]
    /\ UNCHANGED <<df, inp, reports, now>>

SpecBenchmark == InitBenchmark /\ [][CallBenchmarkForAge]_vars

-----------------------------------------------------------------------------
(* Claims about the pure helpers                                           *)

\* C2: _pct returns exactly 0.0 when the denominator is 0 (it does not raise),
\* and otherwise the nearest hundredth of numerator / denominator * 100:
\* the returned value is within half a hundredth of the exact quotient.
C2_PctSafe ==
    out.op = "_pct" =>
        /\ out.ret.kind = "value"
        /\ inp.denominator = 0 => out.ret.val = 0
        /\ inp.denominator # 0 =>
             2 * Abs(out.ret.val * inp.denominator - inp.numerator * 10000)
                <= Abs(inp.denominator)

C2_Witness ==
    /\ out.op = "_pct"
    /\ inp.denominator = 0
    /\ inp.numerator # 0
    /\ out.ret = [kind |-> "value", val |-> 0]

Kinds(issues) == [i \in DOMAIN issues |-> issues[i].kind]
HasKind(issues, k) == \E i \in DOMAIN issues : issues[i].kind = k

\* C3: every comparison of detect_issues is strict: trash iff trash_pct > 20,
\* approve iff approve_pct < 30, buyout iff buyout_pct < 65, score iff
\* score_pct is given and < 70; so exactly 20, 30, 65, 70 raise nothing and
\* an absent score_pct raises no score issue.
C3_StrictThresholds ==
    out.op = "detect_issues" =>
        /\ HasKind(out.ret, "trash") <=> inp.trash_pct > 2000
        /\ HasKind(out.ret, "approve") <=> inp.approve_pct < 3000
        /\ HasKind(out.ret, "buyout") <=> inp.buyout_pct < 6500
        /\ HasKind(out.ret, "score") <=>
              (inp.score_pct # None /\ inp.score_pct[1] < 7000)

C3_Witness ==
    /\ out.op = "detect_issues"
    /\ inp.trash_pct = 2000 /\ inp.approve_pct = 3000
    /\ inp.buyout_pct = 6500 /\ inp.score_pct = Some(7000)
    /\ out.ret = <<>>

IssueOrder == <<"trash", "approve", "buyout", "score">>

Rank(k) == CHOOSE i \in DOMAIN IssueOrder : IssueOrder[i] = k

\* C4: the issue list is a subsequence of [trash, approve, buyout, score]:
\* the kinds appear in strictly increasing position of that order, hence
\* never reordered and never repeated.
C4_FixedOrder ==
    out.op = "detect_issues" =>
        /\ \A i \in DOMAIN out.ret :
              \E j \in DOMAIN IssueOrder : IssueOrder[j] = out.ret[i].kind
        /\ \A i, j \in DOMAIN out.ret :
              i < j => Rank(out.ret[i].kind) < Rank(out.ret[j].kind)

C4_Witness ==
    /\ out.op = "detect_issues"
    /\ Kinds(out.ret) = IssueOrder

\* C5: _benchmark_for_age clamps its argument to [1, W]: any age <= 0 gives the
\* day-1 benchmark, any age >= W the day-W benchmark, and an age in 1..W the
\* benchmark of that very day.
C5_BenchmarkClamp ==
    out.op = "_benchmark_for_age" =>
        /\ out.ret.kind = "value"
        /\ inp.age_days <= 0 => out.ret.val = BUYOUT_BENCHMARK[1]
        /\ inp.age_days >= SCORING_WINDOW_DAYS =>
              out.ret.val = BUYOUT_BENCHMARK[SCORING_WINDOW_DAYS]
        /\ inp.age_days \in 1..SCORING_WINDOW_DAYS =>
              out.ret.val = BUYOUT_BENCHMARK[inp.age_days]

C5_Witness ==
    /\ out.op = "_benchmark_for_age"
    /\ inp.age_days < 0
    /\ out.ret = [kind |-> "value", val |-> BUYOUT_BENCHMARK[1]]

-----------------------------------------------------------------------------
(* The lead DataFrame and the status classification                        *)

\* config: the status codes of the three classes (4 = bought out, which is
\* also an approved lead; 2 = approved, not yet bought out; 3 = trash;
\* 1 = anything else).
APPROVE_STATUSES == {2, 4}
BUYOUT_STATUSES == {4}
TRASH_STATUSES == {3}

Row(w, s, d) == [webmaster |-> w, status |-> s, date |-> d]

\* `n` copies of a row, as consecutive rows of a frame.
Repeat(r, n) == [i \in 1..n |-> r]

\* df[df["webmaster"] == webmaster]
FilterWebmaster(frame, webmaster) ==
    SelectSeq(frame, LAMBDA r : r.webmaster = webmaster)

\* int(frame["status"].isin(statuses).sum())
CountIn(frame, statuses) ==
    Cardinality({i \in DOMAIN frame : frame[i].status \in statuses})

\* The members of a finite set of integers, ascending.
Ascending(S) ==
    [k \in 1..Cardinality(S) |->
        CHOOSE x \in S : Cardinality({y \in S : y < x}) = k - 1]

\* The rows of a frame at the given positions, in frame order.
Take(frame, idx) ==
    LET pos == Ascending(idx \cap DOMAIN frame)
    IN  [k \in DOMAIN pos |-> frame[pos[k]]]

DatesOf(frame) == {frame[i].date : i \in DOMAIN frame}

\* The keys of frame.groupby("date"): the distinct dates, ascending.
SortedDates(S) == Ascending(S)

\* The group of one key.
Group(frame, day) == SelectSeq(frame, LAMBDA r : r.date = day)

\* The sort with the order reversed: newest first.
SortByDate_Descending(rows) ==
    LET before(i) == {j \in DOMAIN rows :
                         \/ rows[j].date > rows[i].date
                         \/ rows[j].date = rows[i].date /\ j < i}
    IN  [k \in DOMAIN rows |->
            rows[CHOOSE i \in DOMAIN rows : Cardinality(before(i)) = k - 1]]

\* sort_values("date") / list.sort(key=date) on rows that carry a date:
\* ascending, rows of equal date keep their order.
SortByDate(rows) ==
    LET before(i) == {j \in DOMAIN rows :
                         \/ rows[j].date < rows[i].date
                         \/ rows[j].date = rows[i].date /\ j < i}
    IN  [k \in DOMAIN rows |->
            rows[CHOOSE i \in DOMAIN rows : Cardinality(before(i)) = k - 1]]

-----------------------------------------------------------------------------
(* metrics.calc_webmaster_metrics, summary_last_n, daily_breakdown          *)

\* The metrics with buyout_pct taken against all leads instead of approved.
MetricsOf_BuyoutOfTotal(webmaster, subset) ==
    LET total == Len(subset)
        approved == CountIn(subset, APPROVE_STATUSES)
        bought_out == CountIn(subset, BUYOUT_STATUSES)
        trash == CountIn(subset, TRASH_STATUSES)
    IN  [webmaster |-> webmaster, total |-> total, approved |-> approved,
         bought_out |-> bought_out, trash |-> trash,
         approve_pct |-> PctVal(approved, total),
         buyout_pct |-> PctVal(bought_out, total),
         trash_pct |-> PctVal(trash, total)]

\* The counts and percentages all three functions compute over their subset,
\* as a function of the three status sets imported from the config.
MetricsUnder(approve_statuses, buyout_statuses, trash_statuses, webmaster, subset) ==
    LET total == Len(subset)
        approved == CountIn(subset, approve_statuses)
        bought_out == CountIn(subset, buyout_statuses)
        trash == CountIn(subset, trash_statuses)
    IN  [webmaster |-> webmaster, total |-> total, approved |-> approved,
         bought_out |-> bought_out, trash |-> trash,
         approve_pct |-> PctVal(approved, total),
         buyout_pct |-> PctVal(bought_out, approved),
         trash_pct |-> PctVal(trash, total)]

\* The same under the configured status sets.
MetricsOf(webmaster, subset) ==
    MetricsUnder(APPROVE_STATUSES, BUYOUT_STATUSES, TRASH_STATUSES,
                 webmaster, subset)

calc_webmaster_metrics(frame, webmaster) ==
    MetricsOf(webmaster, FilterWebmaster(frame, webmaster))

\* last_n_leads: the webmaster's rows sorted by date descending, first n.
\* The sort is not stable, so among rows of the cut-off date any may be kept:
\* the set of possible results, each as the set of kept positions of wdf.
LastNChoices(wdf, n) ==
    IF n >= Len(wdf) THEN {DOMAIN wdf}
    ELSE LET newer(d) == {i \in DOMAIN wdf : wdf[i].date > d}
             onDay(d) == {i \in DOMAIN wdf : wdf[i].date = d}
             cut == CHOOSE d \in DatesOf(wdf) :
                       /\ Cardinality(newer(d)) < n
                       /\ Cardinality(newer(d)) + Cardinality(onDay(d)) >= n
         IN  {newer(cut) \cup T : T \in
                 {U \in SUBSET onDay(cut) :
                     Cardinality(U) = n - Cardinality(newer(cut))}}

\* summary_last_n on one possible result of last_n_leads.
summary_last_n(frame, webmaster, kept) ==
    MetricsOf(webmaster, Take(FilterWebmaster(frame, webmaster), kept))

DayRow(day, group) ==
    LET m == MetricsOf("", group)
    IN  [date |-> day, leads |-> m.total, approved |-> m.approved,
         bought_out |-> m.bought_out, trash |-> m.trash,
         approve_pct |-> m.approve_pct, buyout_pct |-> m.buyout_pct,
         trash_pct |-> m.trash_pct]

\* daily_breakdown.  analysis_date is None or Some(date); when None it is
\* max(df["date"]), which raises ValueError on an empty frame.  With no row
\* of the webmaster the frame built from [] has no "date" column and
\* sort_values("date") raises KeyError.
daily_breakdown(frame, webmaster, analysis_date) ==
    IF analysis_date = None /\ frame = <<>> THEN [kind |-> "ValueError"]
    ELSE LET wdf == FilterWebmaster(frame, webmaster)
             keys == SortedDates(DatesOf(wdf))
             rows == [k \in DOMAIN keys |-> DayRow(keys[k], Group(wdf, keys[k]))]
         IN  IF rows = <<>> THEN [kind |-> "KeyError"]
             ELSE [kind |-> "value", rows |-> SortByDate(rows)]

-----------------------------------------------------------------------------
(* Metrics specification: Init draws a lead frame, each action is one call *)

Webmasters == {"A", "B"}
StatusCodes == {1, 2, 3, 4}

MaxRows == 3        \* the enumerated frames have at most MaxRows rows
MaxN == 2           \* summary_last_n is called with n in 1..MaxN or the default
DefaultN == 100     \* n: int = 100

\* All frames of at most n rows over a set of rows.
Frames(rows, n) == UNION {[1..k -> rows] : k \in 0..n}

MetricRows ==
    {Row(w, s, d) : w \in Webmasters, s \in StatusCodes, d \in {0 - 1, 0}}

\* A larger frame: 108 leads of A on 108 consecutive days, 107 approved of
\* which one is bought out.
VolumeFrame ==
    [i \in 1..108 |->
        Row("A", IF i = 1 THEN 4 ELSE IF i = 108 THEN 1 ELSE 2, 0 - i)]

InitMetrics ==
    /\ df \in Frames(MetricRows, MaxRows) \cup {VolumeFrame}
    /\ inp = <<>>
    /\ out = NoCall
    /\ reports = <<>>
    /\ now = 0

CallCalcWebmasterMetrics ==
    /\ out.op = "none"
    /\ \E w \in Webmasters :
          out' = [op |-> "calc_webmaster_metrics", webmaster |-> w,
                  ret |-> calc_webmaster_metrics(df, w)]
    /\ UNCHANGED <<df, inp, reports, now>>

CallSummaryLastN ==
    /\ out.op = "none"
    /\ \E w \in Webmasters, n \in (1..MaxN) \cup {DefaultN} :
          \E kept \in LastNChoices(FilterWebmaster(df, w), n) :
             out' = [op |-> "summary_last_n", webmaster |-> w, n |-> n,
                     kept |-> kept, ret |-> summary_last_n(df, w, kept)]
    /\ UNCHANGED <<df, inp, reports, now>>

CallDailyBreakdown ==
    /\ out.op = "none"
    /\ \E w \in Webmasters, analysis_date \in {None, Some(0)} :
          out' = [op |-> "daily_breakdown", webmaster |-> w,
                  analysis_date |-> analysis_date,
                  ret |-> daily_breakdown(df, w, analysis_date)]
    /\ UNCHANGED <<df, inp, reports, now>>

NextMetrics ==
    \/ CallCalcWebmasterMetrics
    \/ CallSummaryLastN
    \/ CallDailyBreakdown

SpecMetrics == InitMetrics /\ [][NextMetrics]_vars

-----------------------------------------------------------------------------
(* Claims about the metrics                                                *)

\* v is bought_out / approved * 100 to the nearest hundredth, 0 without approved.
IsBuyoutOfApproved(v, subset) ==
    LET a == Cardinality({i \in DOMAIN subset : subset[i].status \in APPROVE_STATUSES})
        b == Cardinality({i \in DOMAIN subset : subset[i].status \in BUYOUT_STATUSES})
    IN  /\ a = 0 => v = 0
        /\ a > 0 => 2 * Abs(v * a - b * 10000) <= a

\* v is not what bought_out / total * 100 would give.
DiffersFromBuyoutOfTotal(v, subset) ==
    LET t == Len(subset)
        a == Cardinality({i \in DOMAIN subset : subset[i].status \in APPROVE_STATUSES})
        b == Cardinality({i \in DOMAIN subset : subset[i].status \in BUYOUT_STATUSES})
    IN  (a # t /\ b > 0) => v # RoundDiv(b * 10000, t)

\* bought_out / approved * 100 (0 without approved) and bought_out / total * 100
\* lie within 0.01 of each other.
QuotientsWithinAHundredth(subset) ==
    LET t == Len(subset)
        a == Cardinality({i \in DOMAIN subset : subset[i].status \in APPROVE_STATUSES})
        b == Cardinality({i \in DOMAIN subset : subset[i].status \in BUYOUT_STATUSES})
    IN  IF a = 0 THEN 10000 * b <= t
        ELSE 10000 * b * Abs(t - a) <= a * t

\* P(buyout_pct, subset) for every buyout_pct the last call returned, with the
\* lead subset it was computed over.
ForEveryBuyoutPct(P(_, _)) ==
    LET wdf == FilterWebmaster(df, out.webmaster)
    IN  /\ out.op = "calc_webmaster_metrics" => P(out.ret.buyout_pct, wdf)
        /\ out.op = "summary_last_n" => P(out.ret.buyout_pct, Take(wdf, out.kept))
        /\ (out.op = "daily_breakdown" /\ out.ret.kind = "value") =>
              \A k \in DOMAIN out.ret.rows :
                 P(out.ret.rows[k].buyout_pct,
                   SelectSeq(wdf, LAMBDA r : r.date = out.ret.rows[k].date))

-----------------------------------------------------------------------------
(* Exact fractions for the float rates                                     *)

RECURSIVE GCD(_, _)
GCD(a, b) == IF b = 0 THEN a ELSE GCD(b, a % b)

\* n / d in lowest terms, d > 0.
Frac(n, d) ==
    LET g == GCD(Abs(n), d)
    IN  IF n = 0 THEN [n |-> 0, d |-> 1] ELSE [n |-> n \div g, d |-> d \div g]

Zero == Frac(0, 1)
One == Frac(1, 1)
FracAdd(x, y) == Frac(x.n * y.d + y.n * x.d, x.d * y.d)
FracMul(x, y) == Frac(x.n * y.n, x.d * y.d)
FracScale(k, x) == Frac(k * x.n, x.d)
FracLeq(x, y) == x.n * y.d <= y.n * x.d
FracMin(x, y) == IF FracLeq(x, y) THEN x ELSE y

\* round(x * scale, 0) for a fraction x: round(x, 2) of a value kept in
\* hundredths is Round(x, 100), round(x, 4) in ten-thousandths Round(x, 10000).
Round(x, scale) == RoundDiv(x.n * scale, x.d)

-----------------------------------------------------------------------------
(* scoring.calc_score                                                      *)

\* The age with the operands of the subtraction swapped.
AgeDays_Swapped(analysis_date, day) ==
    LET age_days == day - analysis_date
    IN  IF age_days < 1 THEN 1 ELSE age_days

\* age_days = (analysis_date - day).days; if age_days < 1: age_days = 1
AgeDays(analysis_date, day) ==
    LET age_days == analysis_date - day
    IN  IF age_days < 1 THEN 1 ELSE age_days

\* The pass with the weights taken from all leads of the day instead of the
\* approved ones.
ScoreCohort_WeightByLeads(analysis_date, day, group) ==
    LET age_days == AgeDays(analysis_date, day)
        leads == Len(group)
        approved == CountIn(group, APPROVE_STATUSES)
        bought_out == CountIn(group, BUYOUT_STATUSES)
        actual_rate == IF approved # 0 THEN Frac(bought_out, approved) ELSE Zero
        benchmark_rate == Frac(BenchmarkForAge(age_days).val, 100)
        w_actual == FracScale(leads, actual_rate)
        w_benchmark == FracScale(leads, benchmark_rate)
    IN  [w_actual |-> w_actual, w_benchmark |-> w_benchmark,
         row |-> [date |-> day, age_days |-> age_days, leads |-> leads,
                  approved |-> approved, bought_out |-> bought_out,
                  actual_buyout_rate |-> Round(actual_rate, 10000),
                  benchmark_rate |-> Round(benchmark_rate, 10000),
                  weighted_actual |-> Round(w_actual, 100),
                  weighted_benchmark |-> Round(w_benchmark, 100)]]

\* One pass of the loop body of calc_score: the cohort's exact contributions
\* and its CohortRow (rates in ten-thousandths, weights in hundredths).
ScoreCohort(analysis_date, day, group) ==
    LET age_days == AgeDays(analysis_date, day)
        leads == Len(group)
        approved == CountIn(group, APPROVE_STATUSES)
        bought_out == CountIn(group, BUYOUT_STATUSES)
        actual_rate == IF approved # 0 THEN Frac(bought_out, approved) ELSE Zero
        benchmark_rate == Frac(BenchmarkForAge(age_days).val, 100)
        w_actual == FracScale(approved, actual_rate)
        w_benchmark == FracScale(approved, benchmark_rate)
    IN  [w_actual |-> w_actual, w_benchmark |-> w_benchmark,
         row |-> [date |-> day, age_days |-> age_days, leads |-> leads,
                  approved |-> approved, bought_out |-> bought_out,
                  actual_buyout_rate |-> Round(actual_rate, 10000),
                  benchmark_rate |-> Round(benchmark_rate, 10000),
                  weighted_actual |-> Round(w_actual, 100),
                  weighted_benchmark |-> Round(w_benchmark, 100)]]

\* numerator += w_actual / denominator += w_benchmark over the passes.
RECURSIVE SumField(_, _)
SumField(passes, f) ==
    IF passes = <<>> THEN Zero
    ELSE FracAdd(SumField(SubSeq(passes, 1, Len(passes) - 1), f),
                 passes[Len(passes)][f])

\* score = round(numerator / denominator, 4) if denominator else 0.0, capped
\* at 1.0.
ScoreOf_Capped(numerator, denominator) ==
    IF denominator.n # 0
    THEN Min(10000, RoundDiv(numerator.n * denominator.d * 10000,
                             numerator.d * denominator.n))
    ELSE 0

\* score = round(numerator / denominator, 4) if denominator else 0.0,
\* in ten-thousandths.
ScoreOf(numerator, denominator) ==
    IF denominator.n # 0
    THEN RoundDiv(numerator.n * denominator.d * 10000,
                  numerator.d * denominator.n)
    ELSE 0

\* ScoringResult(webmaster=..., analysis_date=...): every other field at its default.
EmptyScoringResult(webmaster, analysis_date) ==
    [kind |-> "value", webmaster |-> webmaster, analysis_date |-> analysis_date,
     cohorts |-> <<>>, numerator |-> 0, denominator |-> 0,
     score |-> 0, score_pct |-> 0]

\* The window with the cut-off day itself left out.
ScoreWindow_StrictCutoff(frame, webmaster, analysis_date) ==
    LET cutoff == analysis_date - SCORING_WINDOW_DAYS
    IN  SelectSeq(FilterWebmaster(frame, webmaster), LAMBDA r : r.date > cutoff)

\* The window without the cut-off: every lead of the webmaster.
ScoreWindow_NoCutoff(frame, webmaster, analysis_date) ==
    FilterWebmaster(frame, webmaster)

\* wdf = df[df["webmaster"] == webmaster]; wdf = wdf[wdf["date"] >= cutoff]
ScoreWindow(frame, webmaster, analysis_date) ==
    LET cutoff == analysis_date - SCORING_WINDOW_DAYS
    IN  SelectSeq(FilterWebmaster(frame, webmaster), LAMBDA r : r.date >= cutoff)

\* calc_score.  analysis_date is None or Some(date); None means max(df["date"]),
\* which raises ValueError on an empty frame.
calc_score(frame, webmaster, analysis_date_arg) ==
    IF analysis_date_arg = None /\ frame = <<>> THEN [kind |-> "ValueError"]
    ELSE
    LET analysis_date ==
            IF analysis_date_arg = None
            THEN CHOOSE d \in DatesOf(frame) : \A e \in DatesOf(frame) : e <= d
            ELSE analysis_date_arg[1]
        wdf == ScoreWindow(frame, webmaster, analysis_date)
        keys == SortedDates(DatesOf(wdf))
        passes == [k \in DOMAIN keys |->
                     ScoreCohort(analysis_date, keys[k], Group(wdf, keys[k]))]
        numerator == SumField(passes, "w_actual")
        denominator == SumField(passes, "w_benchmark")
        score == ScoreOf(numerator, denominator)
    IN  IF wdf = <<>> THEN EmptyScoringResult(webmaster, analysis_date)
        ELSE [kind |-> "value", webmaster |-> webmaster,
              analysis_date |-> analysis_date,
              cohorts |-> SortByDate([k \in DOMAIN passes |-> passes[k].row]),
              numerator |-> Round(numerator, 100),
              denominator |-> Round(denominator, 100),
              score |-> score,
              score_pct |-> RoundDiv(score * 100 * 100, 10000)]

-----------------------------------------------------------------------------
(* scoring.calc_adjusted_buyout                                            *)

TargetMatureRate == 65      \* the 0.65 of 0.65 / benchmark, in percent
DefaultPeriodDays == 30     \* period_days: int = 30

\* The adjusted rate without the cap at 1.0.
AdjustedRate_Uncapped(age_days, actual_rate) ==
    IF age_days >= SCORING_WINDOW_DAYS THEN actual_rate
    ELSE FracMul(actual_rate, Frac(TargetMatureRate, BUYOUT_BENCHMARK[age_days]))

\* The adjusted rate with the projection applied to mature cohorts too.
AdjustedRate_AlwaysProjected(age_days, actual_rate) ==
    FracMin(FracMul(actual_rate,
                    Frac(TargetMatureRate,
                         BUYOUT_BENCHMARK[Min(age_days, SCORING_WINDOW_DAYS - 1)])),
            One)

\* if age_days >= SCORING_WINDOW_DAYS: adjusted_rate = actual_rate
\* else: adjusted_rate = min(actual_rate * (0.65 / benchmark), 1.0)
AdjustedRate(age_days, actual_rate) ==
    IF age_days >= SCORING_WINDOW_DAYS THEN actual_rate
    ELSE FracMin(FracMul(actual_rate,
                         Frac(TargetMatureRate, BUYOUT_BENCHMARK[age_days])),
                 One)

\* The pass with total_weighted += adjusted_rate, the weight forgotten.
AdjustedCohort_Unweighted(analysis_date, day, group) ==
    LET age_days == AgeDays(analysis_date, day)
        approved == CountIn(group, APPROVE_STATUSES)
        bought_out == CountIn(group, BUYOUT_STATUSES)
        actual_rate == IF approved # 0 THEN Frac(bought_out, approved) ELSE Zero
        adjusted_rate == AdjustedRate(age_days, actual_rate)
    IN  [date |-> day, age_days |-> age_days, approved |-> approved,
         bought_out |-> bought_out, actual_rate |-> actual_rate,
         adjusted_rate |-> adjusted_rate,
         weighted |-> adjusted_rate]

\* One pass of the loop body for a cohort that is not skipped.
AdjustedCohort(analysis_date, day, group) ==
    LET age_days == AgeDays(analysis_date, day)
        approved == CountIn(group, APPROVE_STATUSES)
        bought_out == CountIn(group, BUYOUT_STATUSES)
        actual_rate == IF approved # 0 THEN Frac(bought_out, approved) ELSE Zero
        adjusted_rate == AdjustedRate(age_days, actual_rate)
    IN  [date |-> day, age_days |-> age_days, approved |-> approved,
         bought_out |-> bought_out, actual_rate |-> actual_rate,
         adjusted_rate |-> adjusted_rate,
         weighted |-> FracScale(approved, adjusted_rate)]

\* if approved == 0: continue
KeptCohorts(cohorts) == SelectSeq(cohorts, LAMBDA c : c.approved # 0)

RECURSIVE SumApproved(_)
SumApproved(cohorts) ==
    IF cohorts = <<>> THEN 0
    ELSE SumApproved(SubSeq(cohorts, 1, Len(cohorts) - 1))
            + cohorts[Len(cohorts)].approved

\* calc_adjusted_buyout.  analysis_date is None (today, day 0) or Some(date).
\* Returns the float in hundredths of a percent, with the cohorts that entered
\* the sums.
calc_adjusted_buyout(frame, webmaster, analysis_date_arg, period_days) ==
    LET analysis_date ==
            IF analysis_date_arg = None THEN 0 ELSE analysis_date_arg[1]
        since == analysis_date - period_days
        wdf == SelectSeq(frame,
                  LAMBDA r : r.webmaster = webmaster /\ r.date >= since)
        keys == SortedDates(DatesOf(wdf))
        cohorts == KeptCohorts(
                      [k \in DOMAIN keys |->
                          AdjustedCohort(analysis_date, keys[k],
                                         Group(wdf, keys[k]))])
        total_approved == SumApproved(cohorts)
        total_weighted == SumField(cohorts, "weighted")
    IN  IF wdf = <<>> THEN [val |-> 0, cohorts |-> <<>>]
        ELSE IF total_approved = 0 THEN [val |-> 0, cohorts |-> cohorts]
        ELSE [val |-> RoundDiv(total_weighted.n * 100 * 100,
                               total_weighted.d * total_approved),
              cohorts |-> cohorts]

-----------------------------------------------------------------------------
(* Scoring specification: Init draws a lead frame, each action is one call *)

MaxScoreRows == 2   \* the enumerated frames have at most MaxScoreRows rows

\* Creation days around the window edges: 9 and 8 days ago (8 is the last day
\* inside the scoring window), 7 days ago, yesterday, today, tomorrow.
ScoreDates == {0 - 9, 0 - 8, 0 - 7, 0 - 1, 0, 1}

ScoreRows ==
    {Row(w, s, d) : w \in Webmasters, s \in {1, 2, 4}, d \in ScoreDates}

\* Webmaster A: yesterday 10 leads, 8 approved of which 2 bought out; 9 days
\* ago 2 approved of which 1 bought out; 7 days ago one lead, not approved.
\* Webmaster B: one bought-out lead yesterday.
ScenarioFrame ==
    Repeat(Row("A", 4, 0 - 1), 2) \o Repeat(Row("A", 2, 0 - 1), 6)
    \o Repeat(Row("A", 1, 0 - 1), 2)
    \o <<Row("B", 4, 0 - 1), Row("A", 1, 0 - 7)>>
    \o <<Row("A", 4, 0 - 9), Row("A", 2, 0 - 9)>>

InitScoring ==
    /\ df \in Frames(ScoreRows, MaxScoreRows) \cup {ScenarioFrame}
    /\ inp = <<>>
    /\ out = NoCall
    /\ reports = <<>>
    /\ now = 0

CallCalcScore ==
    /\ out.op = "none"
    /\ \E w \in Webmasters, analysis_date \in {None, Some(0)} :
          out' = [op |-> "calc_score", webmaster |-> w,
                  analysis_date |-> analysis_date,
                  ret |-> calc_score(df, w, analysis_date)]
    /\ UNCHANGED <<df, inp, reports, now>>

CallCalcAdjustedBuyout ==
    /\ out.op = "none"
    /\ \E w \in Webmasters, analysis_date \in {None, Some(0 - 1)},
          period_days \in {SCORING_WINDOW_DAYS, DefaultPeriodDays} :
          out' = [op |-> "calc_adjusted_buyout", webmaster |-> w,
                  analysis_date |-> analysis_date, period_days |-> period_days,
                  ret |-> calc_adjusted_buyout(df, w, analysis_date, period_days)]
    /\ UNCHANGED <<df, inp, reports, now>>

NextScoring ==
    \/ CallCalcScore
    \/ CallCalcAdjustedBuyout

Spec == InitScoring /\ [][NextScoring]_vars

-----------------------------------------------------------------------------
(* Claims about the score and the adjusted buyout                          *)

\* Counts taken straight from the frame.
ApprovedOn(w, day) ==
    Cardinality({i \in DOMAIN df : /\ df[i].webmaster = w /\ df[i].date = day
                                   /\ df[i].status \in APPROVE_STATUSES})
BoughtOutOn(w, day) ==
    Cardinality({i \in DOMAIN df : /\ df[i].webmaster = w /\ df[i].date = day
                                   /\ df[i].status \in BUYOUT_STATUSES})

RECURSIVE SumOf(_, _)
SumOf(rows, f) ==
    IF rows = <<>> THEN 0
    ELSE SumOf(SubSeq(rows, 1, Len(rows) - 1), f) + rows[Len(rows)][f]

ScoreReturned == out.op = "calc_score" /\ out.ret.kind = "value"

\* C6: in a calc_score result every cohort has weighted_actual = approved *
\* actual_rate (bought_out when approved > 0, else 0) and weighted_benchmark =
\* approved * benchmark of its age (weights in hundredths), over the counts of
\* the webmaster's leads of that day; numerator and denominator are the sums
\* of the cohorts' weights.
C6_CohortWeights ==
    ScoreReturned =>
        /\ \A k \in DOMAIN out.ret.cohorts :
              LET c == out.ret.cohorts[k]
                  a == ApprovedOn(out.webmaster, c.date)
                  b == BoughtOutOn(out.webmaster, c.date)
              IN  /\ c.approved = a /\ c.bought_out = b
                  /\ c.age_days = Max(1, out.ret.analysis_date - c.date)
                  /\ c.age_days \in 1..SCORING_WINDOW_DAYS
                  /\ c.weighted_actual = (IF a > 0 THEN 100 * b ELSE 0)
                  /\ c.weighted_benchmark = a * BUYOUT_BENCHMARK[c.age_days]
        /\ out.ret.numerator = SumOf(out.ret.cohorts, "weighted_actual")
        /\ out.ret.denominator = SumOf(out.ret.cohorts, "weighted_benchmark")

\* The scenario of the specification: 8 approved, 2 bought out at age 1 give
\* 2.0 and 0.8.
C6_Witness ==
    /\ ScoreReturned
    /\ \E k \in DOMAIN out.ret.cohorts :
          /\ out.ret.cohorts[k].age_days = 1
          /\ out.ret.cohorts[k].approved = 8
          /\ out.ret.cohorts[k].bought_out = 2
          /\ out.ret.cohorts[k].weighted_actual = 200
          /\ out.ret.cohorts[k].weighted_benchmark = 80

\* C7: score = numerator / denominator (to 4 decimals) when denominator > 0 and
\* 0 otherwise, score_pct = score * 100, score >= 0, and nothing caps it.
C7_ScoreRatio ==
    ScoreReturned =>
        /\ out.ret.denominator > 0 =>
              2 * Abs(out.ret.score * out.ret.denominator
                         - out.ret.numerator * 10000) <= out.ret.denominator
        /\ out.ret.denominator = 0 => out.ret.score = 0
        /\ out.ret.score_pct * 10000 = out.ret.score * 100 * 100
        /\ out.ret.score >= 0

\* A webmaster beating the benchmark: score above 1.0.
C7_Witness ==
    /\ ScoreReturned
    /\ out.ret.denominator > 0
    /\ out.ret.score > 10000
    /\ out.ret.score_pct > 10000

AdjustedReturned == out.op = "calc_adjusted_buyout"

\* The analysis date of the last calc_adjusted_buyout call, and the days of
\* the webmaster's leads inside its window.
AdjAnalysisDate == IF out.analysis_date = None THEN 0 ELSE out.analysis_date[1]
AdjWindowDays ==
    {df[i].date : i \in {j \in DOMAIN df :
                            /\ df[j].webmaster = out.webmaster
                            /\ df[j].date >= AdjAnalysisDate - out.period_days}}
AdjAge(day) == Max(1, AdjAnalysisDate - day)

\* C8: a cohort of age >= 8 with approved leads contributes exactly its actual
\* rate bought_out / approved.
C8_MatureUnadjusted ==
    AdjustedReturned =>
        \A day \in AdjWindowDays :
            LET a == ApprovedOn(out.webmaster, day)
                b == BoughtOutOn(out.webmaster, day)
            IN  (AdjAge(day) >= 8 /\ a > 0) =>
                    \E k \in DOMAIN out.ret.cohorts :
                        LET c == out.ret.cohorts[k]
                        IN  /\ c.date = day
                            /\ c.adjusted_rate.n * a = b * c.adjusted_rate.d

C8_Witness ==
    /\ AdjustedReturned
    /\ \E k \in DOMAIN out.ret.cohorts :
          /\ out.ret.cohorts[k].age_days >= 8
          /\ out.ret.cohorts[k].approved = 2
          /\ out.ret.cohorts[k].bought_out = 1
          /\ out.ret.cohorts[k].adjusted_rate = [n |-> 1, d |-> 2]

\* C9: a cohort of age < 8 with approved leads contributes
\* min(actual_rate * 0.65 / benchmark[age], 1.0): exactly 1.0 when the
\* projection reaches or exceeds 1.0, the projection otherwise; never more
\* than 1.0.
C9_YoungProjectedAndCapped ==
    AdjustedReturned =>
        \A day \in AdjWindowDays :
            LET a == ApprovedOn(out.webmaster, day)
                b == BoughtOutOn(out.webmaster, day)
                bench == BUYOUT_BENCHMARK[AdjAge(day)]
            IN  (AdjAge(day) < 8 /\ a > 0) =>
                    \E k \in DOMAIN out.ret.cohorts :
                        LET c == out.ret.cohorts[k]
                        IN  /\ c.date = day
                            /\ c.adjusted_rate.n <= c.adjusted_rate.d
                            /\ IF b * 65 >= a * bench
                               THEN c.adjusted_rate.n = c.adjusted_rate.d
                               ELSE c.adjusted_rate.n * a * bench
                                       = b * 65 * c.adjusted_rate.d

\* A young cohort whose projection (1.0 * 0.65 / 0.10) exceeds 1.0.
C9_Witness ==
    /\ AdjustedReturned
    /\ \E k \in DOMAIN out.ret.cohorts :
          /\ out.ret.cohorts[k].age_days = 1
          /\ out.ret.cohorts[k].approved > 0
          /\ out.ret.cohorts[k].bought_out = out.ret.cohorts[k].approved
          /\ out.ret.cohorts[k].adjusted_rate = [n |-> 1, d |-> 1]

RECURSIVE SumWeightedRates(_)
SumWeightedRates(cohorts) ==
    IF cohorts = <<>> THEN [n |-> 0, d |-> 1]
    ELSE LET rest == SumWeightedRates(SubSeq(cohorts, 1, Len(cohorts) - 1))
             c == cohorts[Len(cohorts)]
         IN  [n |-> rest.n * c.adjusted_rate.d
                       + c.approved * c.adjusted_rate.n * rest.d,
              d |-> rest.d * c.adjusted_rate.d]

\* C10: the result is the approved-weighted average of the adjusted rates of
\* the cohorts in the window date >= analysis_date - period_days, times 100,
\* to 2 decimals; the cohorts entering the sums are exactly the window's days
\* with approved leads, each once with its approved count; 0.0 when the window
\* holds no approved lead.
C10_WeightedAverage ==
    AdjustedReturned =>
        LET cs == out.ret.cohorts
            total == SumOf([k \in DOMAIN cs |->
                              [a |-> ApprovedOn(out.webmaster, cs[k].date)]], "a")
            sum == SumWeightedRates(cs)
        IN  /\ {cs[k].date : k \in DOMAIN cs}
                  = {d \in AdjWindowDays : ApprovedOn(out.webmaster, d) > 0}
            /\ \A j, k \in DOMAIN cs : cs[j].date = cs[k].date => j = k
            /\ \A k \in DOMAIN cs :
                  cs[k].approved = ApprovedOn(out.webmaster, cs[k].date)
            /\ total = 0 => out.ret.val = 0
            /\ total > 0 =>
                  2 * Abs(out.ret.val * sum.d * total - sum.n * 10000)
                     <= sum.d * total

\* Two cohorts of different weight (8 capped at 1.0, 2 at 0.5) and a day
\* without approved leads: (8 + 1) / 10 = 90.00 %.
C10_Witness ==
    /\ AdjustedReturned
    /\ Len(out.ret.cohorts) = 2
    /\ Cardinality(AdjWindowDays) = 3
    /\ out.ret.val = 9000

-----------------------------------------------------------------------------
(* Claims about the cohorts of calc_score                                  *)

\* The positions of the webmaster's leads inside the scoring window of the
\* last calc_score call, counted straight from the frame.
InScoreWindow ==
    {i \in DOMAIN df : /\ df[i].webmaster = out.webmaster
                       /\ df[i].date >= out.ret.analysis_date - 8}

\* C11: the cohorts of a calc_score result cover exactly the webmaster's leads
\* with creation_date >= analysis_date - 8 (that day included): the cohort
\* dates are the dates of those leads, each cohort counts the leads of its
\* date, and the counts add up to the number of those leads, so no lead of
\* another webmaster or of an earlier day is counted.
C11_CohortCoverage ==
    ScoreReturned =>
        /\ {out.ret.cohorts[k].date : k \in DOMAIN out.ret.cohorts}
              = {df[i].date : i \in InScoreWindow}
        /\ \A k \in DOMAIN out.ret.cohorts :
              out.ret.cohorts[k].leads =
                 Cardinality({i \in InScoreWindow :
                                 df[i].date = out.ret.cohorts[k].date})
        /\ SumOf(out.ret.cohorts, "leads") = Cardinality(InScoreWindow)

\* A lead on the cut-off day is counted, one a day older is not.
C11_Witness ==
    /\ ScoreReturned
    /\ Len(out.ret.cohorts) = 1
    /\ out.ret.cohorts[1].date = out.ret.analysis_date - 8
    /\ out.ret.cohorts[1].leads = 1
    /\ \E i \in DOMAIN df : /\ df[i].webmaster = out.webmaster
                            /\ df[i].date = out.ret.analysis_date - 9

\* C12: every cohort of calc_score and of calc_adjusted_buyout has
\* age_days = analysis_date - creation_date, raised to 1 when smaller: leads
\* of the analysis date or of a later date have age 1.
C12_AgeClamped ==
    /\ ScoreReturned =>
          \A k \in DOMAIN out.ret.cohorts :
             LET age == out.ret.analysis_date - out.ret.cohorts[k].date
             IN  out.ret.cohorts[k].age_days = (IF age < 1 THEN 1 ELSE age)
    /\ AdjustedReturned =>
          \A k \in DOMAIN out.ret.cohorts :
             LET age == AdjAnalysisDate - out.ret.cohorts[k].date
             IN  out.ret.cohorts[k].age_days = (IF age < 1 THEN 1 ELSE age)

\* A lead dated after the analysis date, and one a week old, in one result.
C12_Witness ==
    /\ ScoreReturned
    /\ \E k \in DOMAIN out.ret.cohorts :
          /\ out.ret.cohorts[k].date > out.ret.analysis_date
          /\ out.ret.cohorts[k].age_days = 1
    /\ \E k \in DOMAIN out.ret.cohorts :
          /\ out.ret.cohorts[k].date = out.ret.analysis_date - 7
          /\ out.ret.cohorts[k].age_days = 7

\* C13: the cohorts of a calc_score result are in strictly ascending date
\* order, hence one cohort per date, whatever the order of the frame's rows.
C13_CohortsAscending ==
    ScoreReturned =>
        \A j, k \in DOMAIN out.ret.cohorts :
            j < k => out.ret.cohorts[j].date < out.ret.cohorts[k].date

\* The frame lists the newer lead first; the cohorts list the older first.
C13_Witness ==
    /\ ScoreReturned
    /\ Len(df) = 2 /\ df[1].date > df[2].date
    /\ Len(out.ret.cohorts) = 2
    /\ out.ret.cohorts[1].date = df[2].date
    /\ out.ret.cohorts[2].date = df[1].date

\* C14: empty lead sets, empty windows and webmasters without approved leads
\* give zero-valued results and never an exception, also when analysis_date
\* is left to its default: calc_score returns a result, with no cohorts and
\* numerator = denominator = score = score_pct = 0 when no lead is in the
\* window and score 0 when none is approved, and calc_adjusted_buyout
\* returns 0.  (calc_score raises on the empty frame with the default date.)
C14_AsStated ==
    /\ out.op = "calc_score" =>
          /\ out.ret.kind = "value"
          /\ InScoreWindow = {} =>
                /\ out.ret.cohorts = <<>>
                /\ out.ret.numerator = 0 /\ out.ret.denominator = 0
                /\ out.ret.score = 0 /\ out.ret.score_pct = 0
          /\ SumOf(out.ret.cohorts, "approved") = 0 =>
                out.ret.score = 0 /\ out.ret.score_pct = 0
    /\ AdjustedReturned =>
          ((\A day \in AdjWindowDays : ApprovedOn(out.webmaster, day) = 0)
              => out.ret.val = 0)

-----------------------------------------------------------------------------
(* The orchestrator: analysis.analyse_all and its helpers                  *)

\* df["webmaster"].unique().tolist(): the webmasters in order of first row.
Unique(frame) ==
    LET ws == {frame[i].webmaster : i \in DOMAIN frame}
        first(w) == CHOOSE i \in DOMAIN frame :
                        /\ frame[i].webmaster = w
                        /\ \A j \in 1..(i - 1) : frame[j].webmaster # w
    IN  [k \in 1..Cardinality(ws) |->
            CHOOSE w \in ws :
                Cardinality({v \in ws : first(v) < first(w)}) = k - 1]

\* sum(values) of a list of numbers.
RECURSIVE SumSeq(_)
SumSeq(values) ==
    IF values = <<>> THEN 0
    ELSE values[1] + SumSeq(SubSeq(values, 2, Len(values)))

\* round(sum(values) / len(values), 2) if values else 0.0, in hundredths.
\* The quotient is a float: away from a tie it rounds to the nearest
\* hundredth; on a tie the float lies on either side of it, so either
\* neighbouring hundredth can result.
RoundMean(values) ==
    IF values = <<>> THEN {0}
    ELSE LET total == SumSeq(values)
             n == Len(values)
         IN  {r \in (total \div n)..(total \div n + 1) :
                 2 * Abs(r * n - total) <= n}

\* The averages over all leads together: every lead counts once.
_compute_averages_VolumeWeighted(frame, webmasters) ==
    {[avg_approve |-> PctVal(CountIn(frame, APPROVE_STATUSES), Len(frame)),
      avg_trash |-> PctVal(CountIn(frame, TRASH_STATUSES), Len(frame))]}

\* _compute_averages: the possible (avg_approve_pct, avg_trash_pct).
_compute_averages(frame, webmasters) ==
    LET approves == [k \in DOMAIN webmasters |->
                       calc_webmaster_metrics(frame, webmasters[k]).approve_pct]
        trashes == [k \in DOMAIN webmasters |->
                       calc_webmaster_metrics(frame, webmasters[k]).trash_pct]
    IN  {[avg_approve |-> a, avg_trash |-> t] :
            a \in RoundMean(approves), t \in RoundMean(trashes)}

\* The parameters of crud.detect_issues; it takes no **kwargs.
DetectIssuesParams == {"approve_pct", "buyout_pct", "trash_pct", "score_pct"}

\* A call of detect_issues with keyword arguments only: Python binds each
\* keyword to the parameter of that name and raises TypeError for a keyword
\* that names no parameter or a parameter left without a value.
DetectIssuesByKeyword(kwargs) ==
    IF DOMAIN kwargs = DetectIssuesParams
    THEN [kind |-> "value",
          issues |-> DetectIssues(kwargs["approve_pct"], kwargs["buyout_pct"],
                                  kwargs["trash_pct"], kwargs["score_pct"])]
    ELSE [kind |-> "TypeError"]

\* df[(df["webmaster"] == wm) & (df["date"] >= since_score)]
ScoreFrame(frame, wm, today) ==
    SelectSeq(frame, LAMBDA r : r.webmaster = wm /\ r.date >= today - 8)

\* score_pct = None; if not df_score.empty: score_pct = calc_score(...).score_pct
\* with the analysis date analyse_all passes.
ScorePctAt(df_score, wm, today) ==
    IF df_score = <<>> THEN None
    ELSE Some(calc_score(df_score, wm, Some(today)).score_pct)

\* The end of a pass of analyse_all's loop, from the figures computed in it:
\* the call of detect_issues and the record appended, or the exception.
AnalyseRecord(wm, period_days, m, adj_buyout_pct, score_pct, averages) ==
    LET called == DetectIssuesByKeyword(
                      [approve_pct |-> m.approve_pct,
                       adj_buyout_pct |-> adj_buyout_pct,
                       trash_pct |-> m.trash_pct,
                       score_pct |-> score_pct,
                       avg_approve_pct |-> averages.avg_approve,
                       avg_trash_pct |-> averages.avg_trash])
    IN  IF called.kind # "value" THEN called
        ELSE [kind |-> "value",
              record |-> [webmaster |-> wm, period_days |-> period_days,
                          leads_total |-> m.total, approved |-> m.approved,
                          bought_out |-> m.bought_out, trash |-> m.trash,
                          approve_pct |-> m.approve_pct,
                          buyout_pct |-> m.buyout_pct,
                          adj_buyout_pct |-> adj_buyout_pct,
                          trash_pct |-> m.trash_pct, score_pct |-> score_pct,
                          avg_approve_pct |-> averages.avg_approve,
                          avg_trash_pct |-> averages.avg_trash,
                          issues |-> called.issues,
                          ok |-> (Len(called.issues) = 0)]]

\* One pass of analyse_all's loop: the record of webmaster wm, or the
\* exception the pass raises.
AnalyseOne(frame, wm, today, period_days, averages) ==
    AnalyseRecord(wm, period_days,
                  calc_webmaster_metrics(frame, wm),
                  calc_adjusted_buyout(frame, wm, Some(today), period_days).val,
                  ScorePctAt(ScoreFrame(frame, wm, today), wm, today),
                  averages)

\* The loop over the webmasters, given each one's pass: the records in the
\* order of the list, or the exception of the first pass that raises.
AnalyseLoop(webmasters, pass) ==
    LET raised == {k \in DOMAIN webmasters :
                      pass[webmasters[k]].kind # "value"}
    IN  IF raised # {}
        THEN pass[webmasters[CHOOSE k \in raised : \A j \in raised : k <= j]]
        ELSE [kind |-> "value",
              records |-> [k \in DOMAIN webmasters |->
                              pass[webmasters[k]].record]]

\* analyse_all, given the averages _compute_averages returned.
analyse_all(frame, period_days, analysis_date_arg, averages) ==
    IF frame = <<>> THEN [kind |-> "value", records |-> <<>>]
    ELSE AnalyseLoop(Unique(frame),
            [wm \in {frame[i].webmaster : i \in DOMAIN frame} |->
                AnalyseOne(frame, wm,
                           IF analysis_date_arg = None THEN 0
                           ELSE analysis_date_arg[1],
                           period_days, averages)])

-----------------------------------------------------------------------------
(* Saving reports: crud.save_report, analysis.run_and_save, the API's       *)
(* run_reports and the scheduler's _run_reports                             *)

\* The WebmasterReport row save_report builds from data; id is the next
\* value of the autoincrement key, created_at the server's now().
WebmasterReport(data, id, created_at) ==
    [id |-> id, created_at |-> created_at,
     webmaster |-> data.webmaster, period_days |-> data.period_days,
     leads_total |-> data.leads_total, approved |-> data.approved,
     bought_out |-> data.bought_out, trash |-> data.trash,
     approve_pct |-> data.approve_pct, buyout_pct |-> data.buyout_pct,
     trash_pct |-> data.trash_pct, score_pct |-> data.score_pct,
     issues |-> data.issues]

\* save_report at time clock: session.add(report); commit.
save_report(table, data, clock) ==
    Append(table, WebmasterReport(data, Len(table) + 1, clock))

\* for r in results: save_report(...), in the order of the list, each in a
\* transaction of its own, a tick after the one before.
RECURSIVE SaveEach(_, _, _)
SaveEach(table, datas, clock) ==
    IF datas = <<>> THEN table
    ELSE SaveEach(save_report(table, datas[1], clock),
                  SubSeq(datas, 2, Len(datas)), clock + 1)

\* fetch_leads_df(session, webmaster, since): the leads of the table with the
\* optional filters applied.
fetch_leads_df(table, webmaster, since) ==
    SelectSeq(table, LAMBDA r :
        /\ webmaster # None => r.webmaster = webmaster[1]
        /\ since # None => r.date >= since[1])

\* The dict run_and_save passes to save_report for a record of analyse_all:
\* the adjusted buyout goes into the buyout_pct field.
SavedData(r) ==
    [webmaster |-> r.webmaster, period_days |-> r.period_days,
     leads_total |-> r.leads_total, approved |-> r.approved,
     bought_out |-> r.bought_out, trash |-> r.trash,
     approve_pct |-> r.approve_pct, buyout_pct |-> r.adj_buyout_pct,
     trash_pct |-> r.trash_pct, score_pct |-> r.score_pct,
     issues |-> r.issues]

\* The loop of run_and_save over the results of analyse_all: each record is
\* saved and gets the id of its row.  An exception of analyse_all leaves the
\* table as it was.
SaveResults(results, table, clock) ==
    IF results.kind # "value" THEN [ret |-> results, table |-> table]
    ELSE [ret |-> [kind |-> "value",
                   records |-> [k \in DOMAIN results.records |->
                                   results.records[k]
                                      @@ [id |-> Len(table) + k]]],
          table |-> SaveEach(table, [k \in DOMAIN results.records |->
                                        SavedData(results.records[k])],
                             clock)]

\* run_and_save: what it returns (or raises) and the table afterwards.
run_and_save(frame, table, period_days, analysis_date_arg, averages, clock) ==
    SaveResults(analyse_all(frame, period_days, analysis_date_arg, averages),
                table, clock)

_REPORT_WINDOW_DAYS == 30

\* score_pct = None; if not df_score.empty: score_pct = calc_score(df_score,
\* wm).score_pct, the analysis date left to calc_score's default.
ScorePctDefault(df_score, wm) ==
    IF df_score = <<>> THEN None
    ELSE Some(calc_score(df_score, wm, None).score_pct)

\* The end of a pass of _run_reports' loop, from the figures computed in it:
\* the arguments it gives to detect_issues, positionally, and the dict it
\* saves.
ReportPass(wm, m, score_pct) ==
    [webmaster |-> wm,
     detect_issues |-> [approve_pct |-> m.approve_pct,
                        buyout_pct |-> m.buyout_pct,
                        trash_pct |-> m.trash_pct, score_pct |-> score_pct],
     data |-> [webmaster |-> wm, period_days |-> _REPORT_WINDOW_DAYS,
               leads_total |-> m.total, approved |-> m.approved,
               bought_out |-> m.bought_out, trash |-> m.trash,
               approve_pct |-> m.approve_pct, buyout_pct |-> m.buyout_pct,
               trash_pct |-> m.trash_pct, score_pct |-> score_pct,
               issues |-> DetectIssues(m.approve_pct, m.buyout_pct,
                                       m.trash_pct, score_pct)]]

\* One pass of _run_reports' loop over the fetched frame.
RunReportsOne(frame, wm) ==
    ReportPass(wm, calc_webmaster_metrics(frame, wm),
               ScorePctDefault(ScoreFrame(frame, wm, 0), wm))

\* The passes over the webmasters of a non-empty frame, in their order.
RunReportsLoop(frame, webmasters) ==
    [k \in DOMAIN webmasters |-> RunReportsOne(frame, webmasters[k])]

\* _run_reports: the passes over the webmasters of the leads of the last
\* _REPORT_WINDOW_DAYS days, none when there is no such lead.
_run_reports(table) ==
    RunReportsLoop(fetch_leads_df(table, None, Some(0 - _REPORT_WINDOW_DAYS)),
                   Unique(fetch_leads_df(table, None,
                                         Some(0 - _REPORT_WINDOW_DAYS))))

-----------------------------------------------------------------------------
(* Analysis specification: Init draws the leads table, each action is one  *)
(* call of the orchestrator, of the API handler or of the scheduled job     *)

MaxAnalysisRows == 2   \* the enumerated tables have at most this many rows

\* Leads of two webmasters, approved, trash or bought out, created
\* yesterday, 9 days ago or 31 days ago.
AnalysisRows ==
    {Row(w, s, d) : w \in Webmasters, s \in {2, 3, 4},
                    d \in {0 - 31, 0 - 9, 0 - 1}}

\* A: 5 leads, 2 approved, 1 trash.  B: 10 leads, 6 approved, none trash.
AveragesFrame ==
    Repeat(Row("A", 2, 0 - 1), 2) \o Repeat(Row("A", 1, 0 - 1), 2)
    \o <<Row("A", 3, 0 - 1)>>
    \o Repeat(Row("B", 2, 0 - 1), 6) \o Repeat(Row("B", 1, 0 - 1), 4)

\* A: 3 leads, 1 approved (33.33%).  B: 1 lead, trash.  The mean of the two
\* approve percentages, 16.665, is a rounding tie.
TieFrame ==
    <<Row("A", 2, 0 - 1), Row("A", 1, 0 - 1), Row("A", 1, 0 - 1),
      Row("B", 3, 0 - 1)>>

\* A: two approved leads, one of them bought out, the newest created three
\* days ago.
StaleFrame == <<Row("A", 4, 0 - 3), Row("A", 2, 0 - 3)>>

InitAnalysis ==
    /\ df \in Frames(AnalysisRows, MaxAnalysisRows)
                 \cup {ScenarioFrame, AveragesFrame, TieFrame, StaleFrame}
    /\ inp = <<>>
    /\ out = NoCall
    /\ reports = <<>>
    /\ now = 0

CallComputeAverages ==
    /\ out.op = "none"
    /\ \E averages \in _compute_averages(df, Unique(df)) :
          out' = [op |-> "_compute_averages", ret |-> averages]
    /\ UNCHANGED <<df, inp, reports, now>>

CallAnalyseAll ==
    /\ out.op = "none"
    /\ \E analysis_date \in {None, Some(0)},
          averages \in _compute_averages(df, Unique(df)) :
          out' = [op |-> "analyse_all", period_days |-> DefaultPeriodDays,
                  analysis_date |-> analysis_date,
                  ret |-> analyse_all(df, DefaultPeriodDays, analysis_date,
                                      averages)]
    /\ UNCHANGED <<df, inp, reports, now>>

\* POST /reports/run: fetch the leads of the last `days` days, return [] when
\* there are none, else run_and_save.
CallRunReportsApi ==
    /\ out.op = "none"
    /\ \E days \in {SCORING_WINDOW_DAYS, DefaultPeriodDays},
          webmaster \in {None, Some("A")} :
          \E frame \in {fetch_leads_df(df, webmaster, Some(0 - days))} :
              IF frame = <<>>
              THEN /\ out' = [op |-> "run_reports", days |-> days,
                              webmaster |-> webmaster,
                              ret |-> [kind |-> "value", records |-> <<>>]]
                   /\ reports' = reports
                   /\ now' = now
              ELSE \E averages \in _compute_averages(frame, Unique(frame)) :
                   \E r \in {run_and_save(frame, reports, days, None,
                                           averages, now)} :
                      /\ out' = [op |-> "run_reports", days |-> days,
                                 webmaster |-> webmaster, ret |-> r.ret]
                      /\ reports' = r.table
                      /\ now' = now + Len(r.table) - Len(reports)
    /\ UNCHANGED <<df, inp>>

\* The hourly job: every pass saves its report.
CallRunReports ==
    /\ out.op = "none"
    /\ \E passes \in {_run_reports(df)} :
          /\ out' = [op |-> "_run_reports", passes |-> passes]
          /\ reports' = SaveEach(reports, [k \in DOMAIN passes |->
                                              passes[k].data], now)
          /\ now' = now + Len(passes)
    /\ UNCHANGED <<df, inp>>

NextAnalysis ==
    \/ CallComputeAverages
    \/ CallAnalyseAll
    \/ CallRunReportsApi
    \/ CallRunReports

SpecAnalysis == InitAnalysis /\ [][NextAnalysis]_vars

-----------------------------------------------------------------------------
(* Claims about the orchestrator and the scheduled job                     *)

\* Counted straight from the table: the leads of webmaster w, and those of
\* them with a status of the set.
LeadsOf(w) == Cardinality({i \in DOMAIN df : df[i].webmaster = w})
LeadsIn(w, statuses) ==
    Cardinality({i \in DOMAIN df : /\ df[i].webmaster = w
                                   /\ df[i].status \in statuses})

\* The webmasters present, in any fixed order, and their percentages.
Present == Unique(df)
ApprovePcts ==
    [k \in DOMAIN Present |->
        PctVal(LeadsIn(Present[k], APPROVE_STATUSES), LeadsOf(Present[k]))]
TrashPcts ==
    [k \in DOMAIN Present |->
        PctVal(LeadsIn(Present[k], TRASH_STATUSES), LeadsOf(Present[k]))]

\* C17: avg_approve_pct and avg_trash_pct are the unweighted means of the
\* per-webmaster approve_pct and trash_pct, rounded to a hundredth: n times
\* the average is within n/2 hundredths of the sum of the n percentages, each
\* webmaster counted once whatever its number of leads.
C17_UnweightedMean ==
    out.op = "_compute_averages" =>
        /\ 2 * Abs(out.ret.avg_approve * Len(Present) - SumSeq(ApprovePcts))
              <= Len(Present)
        /\ 2 * Abs(out.ret.avg_trash * Len(Present) - SumSeq(TrashPcts))
              <= Len(Present)

\* Webmasters at 40% and 60% with 5 and 10 leads average 50.0, not 53.33.
C17_Witness ==
    /\ out.op = "_compute_averages"
    /\ LeadsOf("A") = 5 /\ LeadsOf("B") = 10
    /\ ApprovePcts = <<4000, 6000>>
    /\ out.ret.avg_approve = 5000
    /\ out.ret.avg_trash = 1000

\* analyse_all was called on a non-empty lead set.
AnalysedNonEmpty == out.op = "analyse_all" /\ df # <<>>

\* The day analyse_all took as today.
AnalysisToday ==
    IF out.analysis_date = None THEN 0 ELSE out.analysis_date[1]

\* C18: for every non-empty lead set analyse_all completes and returns one
\* record per distinct webmaster present, none missing and none twice, each
\* with its metrics, the population averages and ok = (issues is empty).
\* (It raises TypeError instead: detect_issues has no parameter
\* adj_buyout_pct, avg_approve_pct or avg_trash_pct.)
C18_AsStated ==
    AnalysedNonEmpty =>
        /\ out.ret.kind = "value"
        /\ Len(out.ret.records) = Len(Present)
        /\ \A k \in DOMAIN Present :
              LET r == out.ret.records[k]
              IN  /\ r.webmaster = Present[k]
                  /\ r.leads_total = LeadsOf(r.webmaster)
                  /\ r.approve_pct = ApprovePcts[k]
                  /\ r.trash_pct = TrashPcts[k]
                  /\ 2 * Abs(r.avg_approve_pct * Len(Present)
                             - SumSeq(ApprovePcts)) <= Len(Present)
                  /\ r.ok = (r.issues = <<>>)

\* C16: in analyse_all a record has score_pct absent exactly when the
\* webmaster has no lead with creation_date >= today - 8, and then its
\* adj_buyout_pct is still the adjusted buyout of the period_days window.
\* (No record is returned: see C18.)
C16_AsStated ==
    AnalysedNonEmpty =>
        /\ out.ret.kind = "value"
        /\ \A k \in DOMAIN out.ret.records :
              LET r == out.ret.records[k]
                  recent == {i \in DOMAIN df :
                                /\ df[i].webmaster = r.webmaster
                                /\ df[i].date >= AnalysisToday - 8}
              IN  /\ r.score_pct = None <=> recent = {}
                  /\ r.adj_buyout_pct =
                        calc_adjusted_buyout(df, r.webmaster,
                                             Some(AnalysisToday),
                                             out.period_days).val

\* C19: whenever a report is produced, the buyout percentage given to
\* detect_issues is the adjusted buyout of the webmaster, on the scheduled
\* path (_run_reports) as on the on-demand path (analyse_all).
\* (_run_reports gives it the raw bought_out / approved percentage.)
C19_AsStated ==
    /\ out.op = "_run_reports" =>
          \A k \in DOMAIN out.passes :
             out.passes[k].detect_issues.buyout_pct =
                calc_adjusted_buyout(df, out.passes[k].webmaster, None,
                                     _REPORT_WINDOW_DAYS).val
    /\ (out.op = "analyse_all" /\ out.ret.kind = "value") =>
          \A k \in DOMAIN out.ret.records :
             LET r == out.ret.records[k]
             IN  (\E j \in DOMAIN r.issues : r.issues[j].kind = "buyout")
                    <=> r.adj_buyout_pct < BuyoutThreshold * 100

\* C20: the population averages do not influence issue detection: the issue
\* list and the ok flag of every record analyse_all returns are those of its
\* own approve_pct, adjusted buyout, trash_pct and score_pct, so they agree
\* between lead sets that differ only in the averages.
\* (The averages are passed to detect_issues, which rejects them: see C18.)
C20_AsStated ==
    AnalysedNonEmpty =>
        /\ out.ret.kind = "value"
        /\ \A k \in DOMAIN out.ret.records :
              LET r == out.ret.records[k]
              IN  /\ r.issues = DetectIssues(r.approve_pct, r.adj_buyout_pct,
                                             r.trash_pct, r.score_pct)
                  /\ r.ok = (r.issues = <<>>)

-----------------------------------------------------------------------------
(* Classification specification: Init draws a lead frame and the status    *)
(* sets of the config, the action is one call of calc_webmaster_metrics    *)

MaxClassifiedRows == 2   \* the enumerated frames have at most this many rows

\* Status 5 is a code an operator may put in the bought-out set alone.
ClassifiedRows == {Row(w, s, 0 - 1) : w \in Webmasters, s \in 1..5}

\* The configured sets, and sets in which a bought-out code is not approved.
Classifications ==
    {[approve |-> APPROVE_STATUSES, buyout |-> BUYOUT_STATUSES,
      trash |-> TRASH_STATUSES],
     [approve |-> APPROVE_STATUSES, buyout |-> BUYOUT_STATUSES \cup {5},
      trash |-> TRASH_STATUSES]}

InitClassified ==
    /\ df \in Frames(ClassifiedRows, MaxClassifiedRows)
    /\ inp \in Classifications
    /\ out = NoCall
    /\ reports = <<>>
    /\ now = 0

CallMetricsUnder ==
    /\ out.op = "none"
    /\ \E w \in Webmasters :
          out' = [op |-> "calc_webmaster_metrics", webmaster |-> w,
                  ret |-> MetricsUnder(inp.approve, inp.buyout, inp.trash,
                                       w, FilterWebmaster(df, w))]
    /\ UNCHANGED <<df, inp, reports, now>>

SpecClassified == InitClassified /\ [][CallMetricsUnder]_vars

\* A percentage, in hundredths, between 0 and 100.
IsPercent(p) == 0 <= p /\ p <= 100 * 100

\* C21: every percentage the core produces lies in [0, 100] for every lead
\* set, also when a status code is classified as bought out without being
\* classified as approved.  (buyout_pct = bought_out / approved has no upper
\* clamp: two bought-out leads of which one is approved give 200%.)
C21_AsStated ==
    out.op = "calc_webmaster_metrics" =>
        /\ IsPercent(out.ret.approve_pct)
        /\ IsPercent(out.ret.buyout_pct)
        /\ IsPercent(out.ret.trash_pct)

-----------------------------------------------------------------------------
(* The lead store: crud.upsert_leads, upsert_leads_json, patch_lead and    *)
(* the handlers of POST /leads and PATCH /leads/{id}                       *)

\* A row of the leads table.
Lead(id_custom, status, date, webmaster, sum, comment, imported_at) ==
    [id_custom |-> id_custom, status |-> status, date |-> date,
     webmaster |-> webmaster, sum |-> sum, comment |-> comment,
     imported_at |-> imported_at]

\* session.get(Lead, id_custom): the position of the row, if any.
Positions(table, id_custom) ==
    {i \in DOMAIN table : table[i].id_custom = id_custom}

\* The columns a file row supplies: df[["id_custom", "status", "date",
\* "webmaster", "sum"]].
FileRecord(id_custom, status, date, webmaster, sum) ==
    [id_custom |-> id_custom, status |-> status, date |-> date,
     webmaster |-> webmaster, sum |-> sum]

\* A plain INSERT, without the conflict clause.
UpsertOne_AlwaysInsert(table, r, set_comment, clock) ==
    Append(table, Lead(r.id_custom, r.status, r.date, r.webmaster, r.sum,
                       IF "comment" \in DOMAIN r THEN r.comment ELSE None,
                       clock))

\* INSERT ... ON CONFLICT (id_custom) DO UPDATE for one record at time clock.
\* A new row takes the record's values, comment included when the record has
\* one; a stored row gets the record's status, date, webmaster and sum,
\* imported_at = now(), and the record's comment when set_comment.
UpsertOne(table, r, set_comment, clock) ==
    LET comment == IF "comment" \in DOMAIN r THEN r.comment ELSE None
        at == Positions(table, r.id_custom)
    IN  IF at = {}
        THEN Append(table, Lead(r.id_custom, r.status, r.date, r.webmaster,
                                r.sum, comment, clock))
        ELSE [i \in DOMAIN table |->
                 IF i \in at
                 THEN Lead(r.id_custom, r.status, r.date, r.webmaster, r.sum,
                           IF set_comment THEN comment ELSE table[i].comment,
                           clock)
                 ELSE table[i]]

RECURSIVE UpsertEach(_, _, _, _)
UpsertEach(table, records, set_comment, clock) ==
    IF records = <<>> THEN table
    ELSE UpsertEach(UpsertOne(table, records[1], set_comment, clock),
                    SubSeq(records, 2, Len(records)), set_comment, clock)

\* The statement as PostgreSQL executes it: a batch naming one id_custom
\* twice is refused ("ON CONFLICT DO UPDATE command cannot affect row a
\* second time") and nothing is stored.
OnConflictDoUpdate(table, records, set_comment, clock) ==
    IF \E i, j \in DOMAIN records :
          i # j /\ records[i].id_custom = records[j].id_custom
    THEN [kind |-> "CardinalityViolation", table |-> table]
    ELSE [kind |-> "value", ret |-> Len(records),
          table |-> UpsertEach(table, records, set_comment, clock)]

\* upsert_leads: the file path; the comment column is not touched.
upsert_leads(table, records, clock) ==
    IF records = <<>> THEN [kind |-> "value", ret |-> 0, table |-> table]
    ELSE OnConflictDoUpdate(table, records, FALSE, clock)

\* upsert_leads_json: the JSON path; the comment is set from the record.
upsert_leads_json(table, records, clock) ==
    IF records = <<>> THEN [kind |-> "value", ret |-> 0, table |-> table]
    ELSE OnConflictDoUpdate(table, records, TRUE, clock)

\* patch_lead assigning both fields whether supplied or not.
patch_lead_AssignsBoth(table, id_custom, status, comment, clock) ==
    LET at == Positions(table, id_custom)
    IN  IF at = {} THEN [ret |-> FALSE, table |-> table]
        ELSE [ret |-> TRUE,
              table |-> [i \in DOMAIN table |->
                            IF i \in at
                            THEN [table[i] EXCEPT
                                     !.status = IF status # None
                                                THEN status[1] ELSE @,
                                     !.comment = comment,
                                     !.imported_at = clock]
                            ELSE table[i]]]

\* patch_lead: status and comment are None or Some(value).  imported_at has
\* onupdate=now(), applied when the commit writes a changed row.
patch_lead(table, id_custom, status, comment, clock) ==
    LET at == Positions(table, id_custom)
        patched(row) ==
            [row EXCEPT !.status = IF status # None THEN status[1] ELSE @,
                        !.comment = IF comment # None THEN comment ELSE @]
        written(row) ==
            IF patched(row) = row THEN row
            ELSE [patched(row) EXCEPT !.imported_at = clock]
    IN  IF at = {} THEN [ret |-> FALSE, table |-> table]
        ELSE [ret |-> TRUE,
              table |-> [i \in DOMAIN table |->
                            IF i \in at THEN written(table[i]) ELSE table[i]]]

\* update_lead, the PATCH /leads/{id_custom} handler: the HTTP status and the
\* table afterwards.
update_lead(table, id_custom, status, comment, clock) ==
    IF status = None /\ comment = None
    THEN [http |-> 400, table |-> table]
    ELSE LET found == patch_lead(table, id_custom, status, comment, clock)
         IN  IF ~found.ret THEN [http |-> 404, table |-> found.table]
             ELSE [http |-> 200, table |-> found.table]

-----------------------------------------------------------------------------
(* Store specification: the leads table starts empty; each action is one   *)
(* request that reaches the store, a tick of the clock after the last      *)

MaxTicks == 2   \* the requests of a behaviour

LeadIds == {1, 2}

\* Rows a file may carry: lead 1 as first seen, with a new status, with
\* another date, with another webmaster and sum; lead 2 with two statuses.
FileRecords ==
    {FileRecord(1, 1, 0 - 1, "A", 0), FileRecord(1, 2, 0 - 1, "A", 0),
     FileRecord(1, 1, 0, "A", 0), FileRecord(1, 1, 0 - 1, "B", 500),
     FileRecord(2, 1, 0, "B", 0), FileRecord(2, 2, 0, "B", 0)}

\* LeadIn.model_dump(): the same columns and a comment, None when not sent.
JsonRecords ==
    {r @@ [comment |-> c] :
        r \in {FileRecord(1, 1, 0 - 1, "A", 0), FileRecord(1, 2, 0, "A", 0),
               FileRecord(2, 1, 0, "B", 0)},
        c \in {None, Some("seen")}}

\* The batches of one or two records, and the empty one.
Batches(records) ==
    {<<>>} \cup {<<r>> : r \in records} \cup {<<r, q>> : r, q \in records}

InitStore ==
    /\ df = <<>>
    /\ inp = <<>>
    /\ out = NoCall
    /\ reports = <<>>
    /\ now = 0

\* POST /upload with a file that parses to the batch.
UploadFile ==
    /\ now < MaxTicks
    /\ \E batch \in Batches(FileRecords) :
          \E r \in {upsert_leads(df, batch, now + 1)} :
             /\ df' = r.table
             /\ out' = [op |-> "upsert_leads", batch |-> batch,
                        kind |-> r.kind]
    /\ now' = now + 1
    /\ UNCHANGED <<inp, reports>>

\* POST /leads with the batch as its body.
IngestLeads ==
    /\ now < MaxTicks
    /\ \E batch \in Batches(JsonRecords) :
          \E r \in {upsert_leads_json(df, batch, now + 1)} :
             /\ df' = r.table
             /\ out' = [op |-> "upsert_leads_json", batch |-> batch,
                        kind |-> r.kind]
    /\ now' = now + 1
    /\ UNCHANGED <<inp, reports>>

\* PATCH /leads/{id_custom}.
UpdateLead ==
    /\ now < MaxTicks
    /\ \E id_custom \in LeadIds, status \in {None, Some(1), Some(2)},
          comment \in {None, Some("seen"), Some("called")} :
          \E r \in {update_lead(df, id_custom, status, comment, now + 1)} :
             /\ df' = r.table
             /\ out' = [op |-> "update_lead", id_custom |-> id_custom,
                        status |-> status, comment |-> comment,
                        http |-> r.http]
    /\ now' = now + 1
    /\ UNCHANGED <<inp, reports>>

\* crud.patch_lead called directly.
CallPatchLead ==
    /\ now < MaxTicks
    /\ \E id_custom \in LeadIds, status \in {None, Some(2)},
          comment \in {None, Some("called")} :
          \E r \in {patch_lead(df, id_custom, status, comment, now + 1)} :
             /\ df' = r.table
             /\ out' = [op |-> "patch_lead", id_custom |-> id_custom,
                        status |-> status, comment |-> comment,
                        ret |-> r.ret]
    /\ now' = now + 1
    /\ UNCHANGED <<inp, reports>>

NextStore ==
    \/ UploadFile
    \/ IngestLeads
    \/ UpdateLead
    \/ CallPatchLead

SpecStore == InitStore /\ [][NextStore]_vars

\* Row j of the table after a step holds the lead of row i before it.
SameLead(i, j) == df'[j].id_custom = df[i].id_custom

\* C22: across ingest and update operations a stored lead's creation date
\* never changes: whatever the step, a lead stored before it has the same
\* date after it.  (Both upserts overwrite date with the incoming value.)
C22_AsStated ==
    [][\A i \in DOMAIN df : \A j \in DOMAIN df' :
          SameLead(i, j) => df'[j].date = df[i].date]_vars

\* A table with imported_at left out of every row.
IgnoringImportedAt(table) ==
    [i \in DOMAIN table |->
        [f \in DOMAIN table[i] \ {"imported_at"} |-> table[i][f]]]

\* The last request was an upsert that the database accepted.
Upserted ==
    /\ out.op \in {"upsert_leads", "upsert_leads_json"}
    /\ out.kind = "value"

\* The table after the batch of the last upsert is applied once more.
UpsertedAgain ==
    IF out.op = "upsert_leads"
    THEN upsert_leads(df, out.batch, now + 1).table
    ELSE upsert_leads_json(df, out.batch, now + 1).table

Patching(op) == out'.op = op /\ now' = now + 1

\* The step leaves every stored lead other than id_custom as it was and adds
\* or removes none.
OthersKept(id_custom) ==
    /\ Len(df') = Len(df)
    /\ \A i \in DOMAIN df : df[i].id_custom # id_custom => df'[i] = df[i]

\* The step changes of lead id_custom, stored at row i, only the fields
\* supplied.
OnlySupplied(i) ==
    /\ df'[i].id_custom = df[i].id_custom
    /\ df'[i].date = df[i].date
    /\ df'[i].webmaster = df[i].webmaster
    /\ df'[i].sum = df[i].sum
    /\ df'[i].status = (IF out'.status = None THEN df[i].status
                        ELSE out'.status[1])
    /\ df'[i].comment = (IF out'.comment = None THEN df[i].comment
                         ELSE out'.comment)

\* C25: patch_lead returns False for an id that is not stored and leaves the
\* table unchanged; for a stored id it returns True and changes only the
\* status and comment supplied, of that lead alone.  The PATCH handler
\* answers 400 without touching the table when neither is supplied, 404 for
\* an id not stored, 200 otherwise.
C25_PatchFrame ==
    [][/\ Patching("patch_lead") =>
             /\ out'.ret = (Positions(df, out'.id_custom) # {})
             /\ ~out'.ret => df' = df
             /\ OthersKept(out'.id_custom)
             /\ \A i \in Positions(df, out'.id_custom) : OnlySupplied(i)
       /\ Patching("update_lead") =>
             /\ out'.http = 400 <=> (out'.status = None /\ out'.comment = None)
             /\ out'.http = 404 <=>
                   /\ ~(out'.status = None /\ out'.comment = None)
                   /\ Positions(df, out'.id_custom) = {}
             /\ out'.http \in {400, 404} => df' = df
             /\ OthersKept(out'.id_custom)
             /\ \A i \in Positions(df, out'.id_custom) : OnlySupplied(i)
      ]_vars

\* A PATCH with a status alone on one of two stored leads: 200, the status
\* is the one supplied, the comment the lead had is still there.
C25_Witness ==
    /\ out.op = "update_lead" /\ out.http = 200
    /\ out.status = Some(2) /\ out.comment = None
    /\ Len(df) = 2
    /\ \E i \in Positions(df, out.id_custom) :
          /\ df[i].status = 2
          /\ df[i].comment = Some("seen")
          /\ df[i].imported_at = now

-----------------------------------------------------------------------------
(* Claims about daily_breakdown                                            *)

\* The positions of the leads of the webmaster of the last call created on
\* the day, counted straight from the frame.
OnDay(day) ==
    {i \in DOMAIN df : df[i].webmaster = out.webmaster /\ df[i].date = day}
OnDayIn(day, statuses) ==
    Cardinality({i \in OnDay(day) : df[i].status \in statuses})

\* C24: daily_breakdown returns one row per distinct creation date of the
\* webmaster's leads, each with the counts and percentages of that day's
\* leads alone, the rows strictly ascending by date and their lead counts
\* adding up to the webmaster's number of leads.  (For a webmaster without
\* leads it raises instead of returning no rows: see C14.)
C24_AsStated ==
    out.op = "daily_breakdown" =>
        /\ out.ret.kind = "value"
        /\ {out.ret.rows[k].date : k \in DOMAIN out.ret.rows}
              = {df[i].date : i \in {j \in DOMAIN df :
                                        df[j].webmaster = out.webmaster}}
        /\ \A j, k \in DOMAIN out.ret.rows :
              j < k => out.ret.rows[j].date < out.ret.rows[k].date
        /\ \A k \in DOMAIN out.ret.rows :
              LET r == out.ret.rows[k]
              IN  /\ r.leads = Cardinality(OnDay(r.date))
                  /\ r.approved = OnDayIn(r.date, APPROVE_STATUSES)
                  /\ r.bought_out = OnDayIn(r.date, BUYOUT_STATUSES)
                  /\ r.trash = OnDayIn(r.date, TRASH_STATUSES)
                  /\ r.approve_pct = PctVal(r.approved, r.leads)
                  /\ r.buyout_pct = PctVal(r.bought_out, r.approved)
                  /\ r.trash_pct = PctVal(r.trash, r.leads)
        /\ SumOf(out.ret.rows, "leads") = LeadsOf(out.webmaster)

-----------------------------------------------------------------------------
(* Reading reports: crud.get_reports and the handlers GET /reports and      *)
(* GET /reports/{webmaster}                                                 *)

\* The rows newest first: order_by(created_at.desc()).  Every save is a
\* transaction of its own, so no two rows share a created_at.
NewestFirst(rows) ==
    [k \in DOMAIN rows |->
        rows[CHOOSE i \in DOMAIN rows :
                Cardinality({j \in DOMAIN rows :
                                rows[j].created_at > rows[i].created_at})
                   = k - 1]]

\* The first `limit` rows.
Limit(rows, limit) == SubSeq(rows, 1, Min(limit, Len(rows)))

\* get_reports with the LIMIT taken before the webmaster filter.
get_reports_LimitBeforeFilter(table, webmaster, limit) ==
    SelectSeq(Limit(NewestFirst(table), limit),
              LAMBDA r : webmaster = None \/ r.webmaster = webmaster[1])

\* get_reports: one SELECT with the WHERE clause added to it, ordered by
\* created_at descending, at most `limit` rows.  webmaster is None or Some.
get_reports(table, webmaster, limit) ==
    Limit(NewestFirst(SelectSeq(table, LAMBDA r :
              webmaster = None \/ r.webmaster = webmaster[1])), limit)

\* _report_to_dict: the saved buyout_pct is shown as adj_buyout_pct.
ReportToDict(report) ==
    [id |-> report.id, webmaster |-> report.webmaster,
     created_at |-> report.created_at, period_days |-> report.period_days,
     leads_total |-> report.leads_total, approved |-> report.approved,
     bought_out |-> report.bought_out, trash |-> report.trash,
     approve_pct |-> report.approve_pct, adj_buyout_pct |-> report.buyout_pct,
     trash_pct |-> report.trash_pct, score_pct |-> report.score_pct,
     issues |-> report.issues, ok |-> (Len(report.issues) = 0)]

\* list_reports: the dicts of get_reports' rows.
list_reports(table, webmaster, limit) ==
    LET found == get_reports(table, webmaster, limit)
    IN  [k \in DOMAIN found |-> ReportToDict(found[k])]

\* get_webmaster_report: 404 when get_reports(limit=1) finds nothing, else
\* the dict of its one row.
get_webmaster_report(table, webmaster) ==
    LET found == get_reports(table, Some(webmaster), 1)
    IN  IF found = <<>> THEN [http |-> 404]
        ELSE [http |-> 200, ret |-> ReportToDict(found[1])]

\* The limit GET /reports takes when the request names none.
ListDefaultLimit == 20

MaxReports == 3
MaxReportRows == 2
ReportRows == {Row(w, s, 0 - 1) : w \in Webmasters, s \in {2, 4}}

InitReports ==
    /\ df \in Frames(ReportRows, MaxReportRows)
    /\ inp = [op |-> "none"]
    /\ out = [op |-> "none"]
    /\ reports = <<>>
    /\ now = 0

\* A run of the scheduled job over the stored leads.
ScheduledRun ==
    /\ Len(reports) < MaxReports
    /\ \E passes \in {_run_reports(df)} :
          /\ out' = [op |-> "_run_reports", saved |-> Len(passes)]
          /\ reports' = SaveEach(reports, [k \in DOMAIN passes |->
                                              passes[k].data], now)
          /\ now' = now + Len(passes)
    /\ UNCHANGED <<df, inp>>

\* GET /reports/{webmaster}
GetWebmasterReport ==
    /\ \E webmaster \in Webmasters :
          out' = [op |-> "get_webmaster_report", webmaster |-> webmaster,
                  res |-> get_webmaster_report(reports, webmaster)]
    /\ UNCHANGED <<df, inp, reports, now>>

\* GET /reports, with or without a webmaster and a limit.
ListReports ==
    /\ \E webmaster \in {None} \cup {Some(w) : w \in Webmasters},
          limit \in {1, 2, ListDefaultLimit} :
          out' = [op |-> "list_reports", webmaster |-> webmaster,
                  limit |-> limit,
                  ret |-> list_reports(reports, webmaster, limit)]
    /\ UNCHANGED <<df, inp, reports, now>>

NextReports ==
    \/ ScheduledRun
    \/ GetWebmasterReport
    \/ ListReports

SpecReports == InitReports /\ [][NextReports]_vars

\* The saved reports of a webmaster, as positions of the table.
SavedOf(webmaster) ==
    {i \in DOMAIN reports : reports[i].webmaster = webmaster}

\* The saved reports a listing may show.
Listable(webmaster) ==
    {i \in DOMAIN reports : webmaster = None \/ reports[i].webmaster = webmaster[1]}

HistoryKept == SubSeq(reports', 1, Len(reports)) = reports

\* The lead set the run recorded in `out` after a step analysed.
AnalysedFrame == fetch_leads_df(df, out'.webmaster, Some(0 - out'.days))

\* C27: the report history is append-only: a run of run_and_save adds exactly
\* one new row per webmaster of the analysed lead set and returns that row's
\* id in the webmaster's record, and no step modifies or deletes a row saved
\* before it.
\* (analyse_all raises for every non-empty lead set, so the run saves no row:
\* see C18.)
C27_AsStated ==
    [][/\ HistoryKept
       /\ out'.op = "run_reports" =>
             /\ out'.ret.kind = "value"
             /\ Len(reports') = Len(reports) + Len(Unique(AnalysedFrame))
             /\ \A k \in DOMAIN out'.ret.records :
                   /\ reports'[Len(reports) + k].id = out'.ret.records[k].id
                   /\ reports'[Len(reports) + k].webmaster
                         = out'.ret.records[k].webmaster]_vars

\* The part of C27 the code keeps: no step modifies or deletes a saved row.
C27_HistoryKept == [][HistoryKept]_vars

\* C28: for the same leads and the same current date the hourly job and
\* analyse_all compute the same score_pct for every webmaster: the score the
\* job saves, from calc_score without analysis_date, is the score analyse_all
\* computes by passing the current date (day 0).
C28_AsStated ==
    out.op = "_run_reports" =>
        \A k \in DOMAIN out.passes :
            out.passes[k].data.score_pct
               = ScorePctAt(ScoreFrame(df, out.passes[k].webmaster, 0),
                            out.passes[k].webmaster, 0)

\* C29: every cohort of a calc_score result has 1 <= age_days <= 8, whether
\* the analysis date is given or defaulted and also for leads dated after it,
\* so its benchmark is the table entry of its own age_days and the upper clamp
\* of the lookup changes nothing.
C29_AgeInWindow ==
    ScoreReturned =>
        \A k \in DOMAIN out.ret.cohorts :
            LET c == out.ret.cohorts[k]
            IN  /\ 1 <= c.age_days
                /\ c.age_days <= SCORING_WINDOW_DAYS
                /\ c.benchmark_rate
                      = Round(Frac(BUYOUT_BENCHMARK[c.age_days], 100), 10000)

\* A result with a cohort on the cut-off day, at age 8, and a cohort dated
\* after the analysis date, at age 1.
C29_Witness ==
    /\ ScoreReturned
    /\ \E k \in DOMAIN out.ret.cohorts :
          /\ out.ret.cohorts[k].date = out.ret.analysis_date - SCORING_WINDOW_DAYS
          /\ out.ret.cohorts[k].age_days = SCORING_WINDOW_DAYS
    /\ \E k \in DOMAIN out.ret.cohorts :
          /\ out.ret.cohorts[k].date > out.ret.analysis_date
          /\ out.ret.cohorts[k].age_days = 1
          /\ out.ret.cohorts[k].benchmark_rate = 1000

-----------------------------------------------------------------------------
(* api/deps.require_api_key.  Strings are sequences of characters.          *)

Bearer == <<"B", "e", "a", "r", "e", "r", " ">>

\* Characters str.strip() removes.
Whitespace == {" ", "\t"}

\* str.removeprefix(prefix)
RemovePrefix(str, prefix) ==
    IF Len(str) >= Len(prefix) /\ SubSeq(str, 1, Len(prefix)) = prefix
    THEN SubSeq(str, Len(prefix) + 1, Len(str))
    ELSE str

\* str.lstrip() and str.rstrip()
RECURSIVE LStrip(_)
LStrip(str) ==
    IF str # <<>> /\ Head(str) \in Whitespace THEN LStrip(Tail(str)) ELSE str

RECURSIVE RStrip(_)
RStrip(str) ==
    IF str # <<>> /\ str[Len(str)] \in Whitespace
    THEN RStrip(SubSeq(str, 1, Len(str) - 1))
    ELSE str

\* str.strip()
Strip(str) == RStrip(LStrip(str))

\* require_api_key accepting an unset API_KEY: the check `not _EXPECTED_KEY`
\* left out.
require_api_key_EmptyKeyAllowed(key, _EXPECTED_KEY) ==
    IF key = None \/ key[1] = <<>> THEN [http |-> 401]
    ELSE LET actual == Strip(RemovePrefix(key[1], Bearer))
         IN  IF actual # _EXPECTED_KEY THEN [http |-> 403]
             ELSE [http |-> 200, ret |-> actual]

\* require_api_key.  key is None (no Authorization header) or Some(string);
\* _EXPECTED_KEY is the API_KEY of the environment, "" when unset.
require_api_key(key, _EXPECTED_KEY) ==
    IF key = None \/ key[1] = <<>> THEN [http |-> 401]
    ELSE LET actual == Strip(RemovePrefix(key[1], Bearer))
         IN  IF _EXPECTED_KEY = <<>> \/ actual # _EXPECTED_KEY
             THEN [http |-> 403]
             ELSE [http |-> 200, ret |-> actual]

MaxKeyLen == 2
KeyChars == {"k", "x"}
Keys == UNION {[1..n -> KeyChars] : n \in 0..MaxKeyLen}

\* The API_KEY values: unset, plain keys, a key that itself begins with
\* "Bearer ", a key with a trailing blank.
ExpectedKeys == Keys \cup {Bearer \o <<"k">>, <<"k", " ">>}

\* The Authorization headers: none, or a value with or without the prefix and
\* surrounding blanks.
Headers ==
    {None} \cup
    {Some(lead \o pre \o body \o trail) :
        lead \in {<<>>, <<" ">>}, pre \in {<<>>, Bearer},
        body \in Keys \cup {Bearer \o <<"k">>},
        trail \in {<<>>, <<" ">>, <<"\t">>}}

InitAuth ==
    /\ df = <<>>
    /\ inp \in [key : Headers, API_KEY : ExpectedKeys]
    /\ out = [op |-> "none"]
    /\ reports = <<>>
    /\ now = 0

Request ==
    /\ out.op = "none"
    /\ out' = [op |-> "require_api_key",
               res |-> require_api_key(inp.key, inp.API_KEY)]
    /\ UNCHANGED <<df, inp, reports, now>>

SpecAuth == InitAuth /\ [][Request]_vars

\* str begins with prefix.
StartsWith(str, prefix) ==
    \E rest \in 0..Len(str) :
        str = prefix \o SubSeq(str, Len(str) - rest + 1, Len(str))

\* actual is str without the blanks at its ends.
IsTrimOf(actual, str) ==
    \E a, b \in 0..Len(str) :
        /\ a + b <= Len(str)
        /\ actual = SubSeq(str, a + 1, Len(str) - b)
        /\ \A i \in 1..a : str[i] \in Whitespace
        /\ \A i \in (Len(str) - b + 1)..Len(str) : str[i] \in Whitespace
        /\ actual # <<>> => /\ actual[1] \notin Whitespace
                            /\ actual[Len(actual)] \notin Whitespace

\* The presented key of a header value: what follows the prefix "Bearer "
\* when the value begins with it, else the value, without the blanks around.
IsPresentedKey(actual, value) ==
    \E rest \in {SubSeq(value, n, Len(value)) : n \in 1..(Len(value) + 1)} :
        /\ \/ value = Bearer \o rest
           \/ ~StartsWith(value, Bearer) /\ rest = value
        /\ IsTrimOf(actual, rest)

\* C30: require_api_key admits a request only when the Authorization value,
\* its optional "Bearer " prefix removed and then trimmed, equals the
\* configured API_KEY and that key is not empty; a missing or empty header is
\* answered 401, every other rejected request 403, and with API_KEY unset or
\* empty no request is admitted.
C30_Admission ==
    out.op = "require_api_key" =>
        /\ out.res.http \in {200, 401, 403}
        /\ out.res.http = 401 <=> (inp.key = None \/ inp.key = Some(<<>>))
        /\ out.res.http = 200 <=>
              /\ inp.key # None
              /\ inp.API_KEY # <<>>
              /\ IsPresentedKey(inp.API_KEY, inp.key[1])
        /\ out.res.http = 200 => out.res.ret = inp.API_KEY
        /\ inp.API_KEY = <<>> => out.res.http # 200

\* A request admitted with the prefix and a trailing blank around the key.
C30_Witness ==
    /\ out.op = "require_api_key"
    /\ out.res.http = 200
    /\ inp.key = Some(Bearer \o inp.API_KEY \o <<" ">>)
    /\ Len(inp.API_KEY) = 2

=============================================================================
